---- MODULE Spec2Model ----
(***************************************************************************)
(* Model of backup_to_google_drive/__main__.py: the retrying transport     *)
(* (ConnGoogleDrive._exponential_backoff), the per-folder worker           *)
(* (make_backup), the entry point (main) and the prune step                *)
(* (ConnGoogleDrive.clean_backup_folder).                                  *)
(***************************************************************************)
EXTENDS Integers, Sequences, FiniteSets, TLC

\* ------------------------------------------------------------------------
\* Bounds of the model
\* ------------------------------------------------------------------------
\* random.random() is modelled in SleepScale-ths of a second: 0..SleepScale-1
SleepScale == 2
\* number of distinct success payloads a call can return
MaxPayload == 2
\* largest number of objects in the destination folder before a prune
MaxFiles == 250
\* largest number of IDs in the list handed to clean_backup_folder
MaxKeep == 2
\* largest number of pages the remote service splits a listing into
MaxPages == 3
\* number of folders that can be named on the command line or in the config
MaxFolders == 2
\* largest number of archives of earlier runs in the destination folder
MaxOld == 2
\* largest number of objects whose delete the service refuses
MaxUndeletable == 2
\* number of distinct names of directories in a folder tree
MaxNames == 2
\* depth of a folder tree below the folder that is backed up
MaxDepth == 2
\* number of components of the path of the folder that is backed up
MaxRootLen == 1
\* number of distinct base names the folders of a run can have
MaxBases == 2
\* last second of the clock that datetime.now() reads during a run
MaxClock == 1

\* ------------------------------------------------------------------------
\* Program constants
\* ------------------------------------------------------------------------
\* range(0, 5) in _exponential_backoff
MaxAttempts == 5
\* Python's None
None == 0
\* size of one grouped delete request in clean_backup_folder
BatchLimit == 100
\* time.sleep(2) before each grouped delete request
BatchPause == 2

\* ------------------------------------------------------------------------
\* Responses of one request.execute() invocation
\* ------------------------------------------------------------------------
OkResp(v) == [kind |-> "ok", status |-> 200, value |-> v]
HttpErr(s) == [kind |-> "HttpError", status |-> s, value |-> None]
\* an exception that is not errors.HttpError (socket error, timeout, ...)
OtherErr == [kind |-> "OSError", status |-> 0, value |-> None]

\* HTTP statuses the remote service answers a failed request with
ErrorStatuses == {400, 401, 403, 404, 429, 500, 502, 503}

\* re.search(r"HttpError (500|503)", str(e)): str(e) starts with
\* "<HttpError <status> when requesting ..."
Retryable(status) == status = 500 \/ status = 503

\* ------------------------------------------------------------------------
\* ConnGoogleDrive._exponential_backoff as a step machine over a record
\*   n      loop index of "for n in range(0, 5)"
\*   calls  number of request.execute() invocations made so far
\*   st     "call": about to invoke, "sleep": in time.sleep,
\*          "returned" / "raised": the function has ended
\*   err    class of the raised exception, "none" when nothing was raised
\*   status HTTP status of the raised HttpError
\*   value  the returned value
\* ------------------------------------------------------------------------
BoStart == [n |-> 0, calls |-> 0, st |-> "call", err |-> "none",
            status |-> 0, value |-> None]

BoIdle == [n |-> 0, calls |-> 0, st |-> "idle", err |-> "none",
           status |-> 0, value |-> None]

\* mutant: the last attempt is taken to be index 5, so the loop runs out
InvokeOffByOne(b, resp) ==
  LET c == [b EXCEPT !.calls = b.calls + 1] IN
  IF resp.kind = "ok" THEN [c EXCEPT !.st = "returned", !.value = resp.value]
  ELSE IF resp.kind # "HttpError" THEN [c EXCEPT !.st = "raised", !.err = resp.kind]
  ELSE IF ~Retryable(resp.status)
    THEN [c EXCEPT !.st = "raised", !.err = "HttpError", !.status = resp.status]
  ELSE IF b.n = 5 THEN [c EXCEPT !.st = "raised", !.err = "Exception"]
  ELSE [c EXCEPT !.st = "sleep"]

\* mutant: every HttpError is retried, whatever its status
InvokeRetryAll(b, resp) ==
  LET c == [b EXCEPT !.calls = b.calls + 1] IN
  IF resp.kind = "ok" THEN [c EXCEPT !.st = "returned", !.value = resp.value]
  ELSE IF resp.kind # "HttpError" THEN [c EXCEPT !.st = "raised", !.err = resp.kind]
  ELSE IF b.n = 4 THEN [c EXCEPT !.st = "raised", !.err = "Exception"]
  ELSE [c EXCEPT !.st = "sleep"]

\* mutant: a success on a retry is not returned but tried once more
InvokeNoReturn(b, resp) ==
  LET c == [b EXCEPT !.calls = b.calls + 1] IN
  IF resp.kind = "ok" /\ (b.n = 0 \/ b.n = 4)
    THEN [c EXCEPT !.st = "returned", !.value = resp.value]
  ELSE IF resp.kind = "ok" THEN [c EXCEPT !.st = "sleep"]
  ELSE IF resp.kind # "HttpError" THEN [c EXCEPT !.st = "raised", !.err = resp.kind]
  ELSE IF ~Retryable(resp.status)
    THEN [c EXCEPT !.st = "raised", !.err = "HttpError", !.status = resp.status]
  ELSE IF b.n = 4 THEN [c EXCEPT !.st = "raised", !.err = "Exception"]
  ELSE [c EXCEPT !.st = "sleep"]

\* one pass through the try/except of the loop body, given what
\* request.execute() does on this invocation
Invoke(b, resp) ==
  LET c == [b EXCEPT !.calls = b.calls + 1] IN
  IF resp.kind = "ok" THEN [c EXCEPT !.st = "returned", !.value = resp.value]
  ELSE IF resp.kind # "HttpError" THEN [c EXCEPT !.st = "raised", !.err = resp.kind]
  ELSE IF ~Retryable(resp.status)
    THEN [c EXCEPT !.st = "raised", !.err = "HttpError", !.status = resp.status]
  ELSE IF b.n = 4 THEN [c EXCEPT !.st = "raised", !.err = "Exception"]
  ELSE [c EXCEPT !.st = "sleep"]

\* 2 ** n
RECURSIVE Pow2(_)
Pow2(n) == IF n = 0 THEN 1 ELSE 2 * Pow2(n - 1)

\* mutant: the pause grows linearly with the attempt
SleepDurationLinear(n, r) == (2 * n) * SleepScale + r

\* time.sleep((2 ** n) + random.random()), in units of 1/SleepScale second;
\* r in 0..SleepScale-1 is the value of random.random()
SleepDuration(n, r) == Pow2(n) * SleepScale + r

\* the end of time.sleep: the loop takes its next index, and a loop that
\* runs out of indices falls off the end of the function (returns None)
AfterSleep(b) ==
  IF b.n + 1 < MaxAttempts THEN [b EXCEPT !.n = b.n + 1, !.st = "call"]
  ELSE [b EXCEPT !.st = "returned", !.value = None]

BoEnded(b) == b.st = "returned" \/ b.st = "raised"

\* ------------------------------------------------------------------------
\* State
\* ------------------------------------------------------------------------
VARIABLES
  bo,      \* the _exponential_backoff call of the main process
  hist,    \* what each request.execute() invocation of that call did
  sleeps   \* the time.sleep durations of that call

\* the remote service
VARIABLES
  drive,     \* IDs of the objects in the destination folder, listing order
  removed,   \* IDs of the objects the service has deleted
  n_pages,   \* number of pages the service answers a listing in
  undeletable  \* IDs whose delete the service answers with an error

\* ConnGoogleDrive.clean_backup_folder
VARIABLES
  has_backup_folder,  \* config has google_drive_backup_folder_id
  actual_files,       \* the argument: IDs to keep
  pr_pc,              \* "idle", "list", "batch", "done", "noop", "raised"
  page_token,         \* _get_files_in_folder: page_token
  results,            \* _get_files_in_folder: results
  files_to_del,       \* the filtered list
  iteration,          \* loop index of the batch loop
  batches,            \* the grouped requests built so far, as ID lists
  pauses,             \* total of the time.sleep(2) pauses taken
  page_calls,         \* pageToken of the list calls that returned, in order
  warnings,           \* the request numbers the callback has reported
  events              \* "pause" for a time.sleep(2), "submit" for the first
                      \* execute() of a grouped request, in order

\* main: the command line, the configuration and the token file
VARIABLES
  fetch_token,      \* args.fetch_token
  no_backup_clean,  \* args.no_backup_clean
  folders_arg,      \* args.folders
  cfg_folders,      \* config "folders_for_backup"
  token_file,       \* the token file exists
  main_pc,          \* "start", "resolve", "join", "prune", "raised",
                    \* "returned", "exited"
  exit_code,        \* exit status of the process, -1 while it runs
  caught,           \* an exception of main was caught and logged by log.catch
  folders           \* the folders handed to the pool

\* make_backup, one task of the pool per folder
VARIABLES
  worker,   \* "none", "pending", "archiving", "uploading", "cleaning",
            \* "done", "failed_archive", "failed_upload", "failed_remove"
  wbo,      \* the _exponential_backoff call of the worker's upload
  file_id,  \* google_drive_file_id
  result,   \* the value the task returned, None when it returned nothing
  disk,     \* the paths of the staging archives on the local disk
  base,     \* os.path.basename(folder) of each folder
  clock,    \* the second that datetime.now() last read
  zip_path  \* zipfile_path of the task, <<>> before it is computed

\* ZipMaker._prepare_folder_for_backup and the file system it walks; a path
\* is the sequence path.split("/") gives, with the empty string (0) before
\* the leading "/" of an absolute path
VARIABLES
  folder,                \* self.folder, <<>> when no walk is under study
  exclude_folder_names,  \* self._exclude_folder_names, {} for None or []
  fs_dirs,               \* the directories below folder, relative to it
  fs_order,              \* the order in which a directory lists its names
  walk_todo,             \* addresses os.walk has yet to yield, in order
  prepared_files,        \* prepared_files
  absolute_root_path,    \* absolute_root_path, <<>> for None
  root_path              \* root_path, None until it is set

main_vars == <<fetch_token, no_backup_clean, folders_arg, cfg_folders,
               token_file, main_pc, exit_code, caught, folders>>
zip_vars == <<base, clock, zip_path>>
walk_vars == <<folder, exclude_folder_names, fs_dirs, fs_order, walk_todo,
               prepared_files, absolute_root_path, root_path>>
worker_vars == <<worker, wbo, file_id, result, disk, zip_vars, walk_vars>>
retry_vars == <<bo, hist, sleeps>>
remote_vars == <<drive, removed, n_pages, undeletable>>
prune_vars == <<has_backup_folder, actual_files, pr_pc, page_token, results,
                files_to_del, iteration, batches, pauses, page_calls,
                warnings, events>>

vars == <<main_vars, worker_vars, retry_vars, remote_vars, prune_vars>>

Folders == 1..MaxFolders

\* no folder is being prepared for archiving
NoWalk ==
  /\ folder = <<>> /\ exclude_folder_names = {}
  /\ fs_dirs = {} /\ fs_order = <<>> /\ walk_todo = <<>>
  /\ prepared_files = <<>> /\ absolute_root_path = <<>> /\ root_path = None

\* the main process is inside the call under study and no task was dispatched
NoRun(pc) ==
  /\ fetch_token = FALSE /\ no_backup_clean = FALSE
  /\ folders_arg = {} /\ cfg_folders = {} /\ token_file = TRUE
  /\ main_pc = pc /\ exit_code = -1 /\ caught = FALSE /\ folders = {}
  /\ worker = [f \in Folders |-> "none"]
  /\ wbo = [f \in Folders |-> BoIdle]
  /\ file_id = [f \in Folders |-> None]
  /\ result = [f \in Folders |-> None]
  /\ disk = {}
  /\ base = [f \in Folders |-> 1]
  /\ clock = 0
  /\ zip_path = [f \in Folders |-> <<>>]
  /\ NoWalk

\* ------------------------------------------------------------------------
\* Specification of one _exponential_backoff call on an arbitrary request
\* ------------------------------------------------------------------------
Responses ==
  {OkResp(v) : v \in 1..MaxPayload} \cup {HttpErr(s) : s \in ErrorStatuses}
    \cup {OtherErr}

RetryInit ==
  /\ bo = BoStart
  /\ hist = <<>>
  /\ sleeps = <<>>
  /\ drive = <<>> /\ removed = {} /\ n_pages = 1
  /\ has_backup_folder = TRUE /\ actual_files = {} /\ pr_pc = "idle"
  /\ page_token = None /\ results = <<>> /\ files_to_del = <<>>
  /\ iteration = 0 /\ batches = <<>> /\ pauses = 0
  /\ undeletable = {} /\ page_calls = <<>> /\ warnings = <<>> /\ events = <<>>
  /\ NoRun("backoff")

RetryInvoke ==
  /\ bo.st = "call"
  /\ \E resp \in Responses :
       /\ bo' = Invoke(bo, resp)
       /\ hist' = Append(hist, resp)
  /\ UNCHANGED <<main_vars, worker_vars, sleeps, remote_vars, prune_vars>>

RetrySleep ==
  /\ bo.st = "sleep"
  /\ \E r \in 0..(SleepScale - 1) :
       sleeps' = Append(sleeps, SleepDuration(bo.n, r))
  /\ bo' = AfterSleep(bo)
  /\ UNCHANGED <<main_vars, worker_vars, hist, remote_vars, prune_vars>>

RetryNext == RetryInvoke \/ RetrySleep

SpecRetry == RetryInit /\ [][RetryNext]_vars

\* ------------------------------------------------------------------------
\* Claims about the retrying transport (checked under SpecRetry)
\* ------------------------------------------------------------------------
RetryableFailure(resp) == resp.kind = "HttpError" /\ Retryable(resp.status)
TerminalFailure(resp) == resp.kind # "ok" /\ ~RetryableFailure(resp)

\* the call failed retryably on its first k invocations and succeeded on
\* invocation k+1
FailsThenSucceeds(k) ==
  /\ Len(hist) >= k + 1
  /\ \A i \in 1..k : RetryableFailure(hist[i])
  /\ hist[k + 1].kind = "ok"

\* C1: a call that fails retryably exactly k times, k < 4, and then succeeds
\* makes _exponential_backoff return that success value after exactly k+1
\* invocations, and no invocation follows.
C1_RetrySuccess ==
  \A k \in 0..3 :
    FailsThenSucceeds(k) =>
      /\ Len(hist) = k + 1
      /\ bo.calls = k + 1
      /\ bo.st = "returned"
      /\ bo.value = hist[k + 1].value
      /\ bo.value # None

C1_Witness ==
  /\ FailsThenSucceeds(3)
  /\ bo.st = "returned"
  /\ bo.calls = 4
  /\ bo.value = hist[4].value

AllRetryable == \A i \in 1..Len(hist) : RetryableFailure(hist[i])

\* C2: a call that fails retryably on every invocation is invoked exactly 5
\* times (attempts 0..4), never a 6th time; the 5th failure raises the
\* exhausted-retries error and no value is ever returned.
C2_RetryExhaustion ==
  /\ Len(hist) <= 5
  /\ bo.calls = Len(hist)
  /\ AllRetryable =>
       /\ bo.st # "returned"
       /\ Len(hist) < 5 => bo.st \in {"call", "sleep"} /\ bo.n = Len(sleeps)
       /\ Len(hist) = 5 =>
            /\ bo.st = "raised"
            /\ bo.err = "Exception"
            /\ bo.n = 4

C2_Witness ==
  /\ Len(hist) = 5
  /\ AllRetryable
  /\ bo.st = "raised"
  /\ bo.err = "Exception"
  /\ bo.calls = 5

\* C3: an invocation that fails with a non-retryable error (anything but
\* HTTP 500/503), on whichever attempt, is the last one: that very error is
\* raised, no sleep follows it and no further invocation is made.
C3_TerminalFailure ==
  \A i \in 1..Len(hist) :
    TerminalFailure(hist[i]) =>
      /\ Len(hist) = i
      /\ bo.calls = i
      /\ bo.st = "raised"
      /\ bo.err = hist[i].kind
      /\ bo.status = hist[i].status
      /\ Len(sleeps) = i - 1

C3_Witness ==
  /\ Len(hist) = 3
  /\ hist[3] = HttpErr(403)
  /\ bo.st = "raised"
  /\ bo.err = "HttpError"
  /\ bo.calls = 3
  /\ Len(sleeps) = 2

\* a terminal failure on the first invocation gives exactly one invocation
C3_WitnessFirst ==
  /\ Len(hist) = 1
  /\ TerminalFailure(hist[1])
  /\ bo.st = "raised"
  /\ bo.calls = 1

RECURSIVE SumSeq(_)
SumSeq(q) == IF q = <<>> THEN 0 ELSE Head(q) + SumSeq(Tail(q))

\* 2^n seconds for the attempts n = 0..3, in units of 1/SleepScale second
BackoffBase == <<1 * SleepScale, 2 * SleepScale, 4 * SleepScale, 8 * SleepScale>>

\* C15: within one call, the i-th sleep comes after a retryable failure of
\* attempt n = i - 1 < 4 and lasts d with 2^n <= d < 2^n + 1 seconds; one
\* sleep separates consecutive invocations; no sleep follows a success, a
\* terminal failure or the failure of attempt 4; so at most 4 sleeps occur
\* and they add up to less than 19 seconds.
C15_BackoffSchedule ==
  /\ Len(sleeps) <= 4
  /\ \A i \in 1..Len(sleeps) :
       /\ RetryableFailure(hist[i])
       /\ BackoffBase[i] <= sleeps[i]
       /\ sleeps[i] < BackoffBase[i] + SleepScale
  /\ bo.st = "call" => Len(sleeps) = Len(hist)
  /\ bo.st = "sleep" =>
       /\ Len(sleeps) = Len(hist) - 1
       /\ Len(hist) <= 4
       /\ RetryableFailure(hist[Len(hist)])
  /\ BoEnded(bo) =>
       /\ Len(sleeps) = Len(hist) - 1
       /\ \/ hist[Len(hist)].kind = "ok"
          \/ TerminalFailure(hist[Len(hist)])
          \/ Len(hist) = 5
  /\ SumSeq(sleeps) >= 0
  /\ SumSeq(sleeps) < 19 * SleepScale

\* four sleeps, the last one longer than 8 seconds, then the failure of
\* attempt 4
C15_Witness ==
  /\ Len(sleeps) = 4
  /\ sleeps[4] > BackoffBase[4]
  /\ Len(hist) = 5
  /\ bo.st = "raised"

\* ------------------------------------------------------------------------
\* The remote service's answer to files().list(q="parents='<folder>'", ...)
\* ------------------------------------------------------------------------
Min(a, b) == IF a < b THEN a ELSE b

SeqRange(q) == {q[i] : i \in 1..Len(q)}

\* the listing comes in n_pages pages of PageLen objects (the last shorter)
PageLen ==
  IF Len(drive) % n_pages = 0 THEN Len(drive) \div n_pages
  ELSE Len(drive) \div n_pages + 1

\* pageToken=None asks for the first page, a token for the page it names
PageIndex(tok) == IF tok = None THEN 1 ELSE tok

\* response.get("files", []) of page k
PageFiles(k) == SubSeq(drive, (k - 1) * PageLen + 1, Min(k * PageLen, Len(drive)))

\* response.get("nextPageToken") of page k: absent (None) on the last page
NextPageToken(k) == IF k < n_pages THEN k + 1 ELSE None

\* what a list or batch request.execute() can do
PruneResponses == {OkResp(1), HttpErr(503), HttpErr(403)}

\* ------------------------------------------------------------------------
\* ConnGoogleDrive.clean_backup_folder
\* ------------------------------------------------------------------------
\* mutant: the filter is dropped, every listed ID is to be deleted
FilesToDelNoFilter(listed, keep) == listed

\* [f for f in self._get_files_in_folder(...) if f not in actual_files]
FilesToDel(listed, keep) == SelectSeq(listed, LAMBDA f : f \notin keep)

\* math.ceil(len(files_to_del) / 100)
Iterations(n) ==
  IF n % BatchLimit = 0 THEN n \div BatchLimit ELSE n \div BatchLimit + 1

\* mutant: the slices overlap by one ID
ChunkOfOverlap(files, it) ==
  LET lo == IF it = 0 THEN 0 ELSE it * BatchLimit - 1
      range_to == (it * BatchLimit) + BatchLimit
      hi == IF range_to < Len(files) THEN range_to ELSE Len(files)
  IN  [j \in 1..(hi - lo) |-> files[lo + j]]

\* the IDs added to the grouped request of loop index it:
\* files_to_del[i] for i in range(it * 100, min(it * 100 + 100, len))
ChunkOf(files, it) ==
  LET lo == it * BatchLimit
      range_to == (it * BatchLimit) + BatchLimit
      hi == IF range_to < Len(files) THEN range_to ELSE Len(files)
  IN  [j \in 1..(hi - lo) |-> files[lo + j]]

\* mutant: the guard on the destination folder is missing
PruneEnterNoGuard ==
  /\ main_pc = "prune"
  /\ pr_pc = "called"
  /\ pr_pc' = "list"
  /\ page_token' = None
  /\ results' = <<>>
  /\ bo' = BoStart
  /\ UNCHANGED <<main_vars, worker_vars, hist, sleeps, remote_vars,
                 has_backup_folder, actual_files, files_to_del, iteration,
                 batches, pauses, page_calls, warnings, events>>

\* lines 305-312: the guard on the destination folder (without one the
\* error is logged and the function returns: "noop"), then the first
\* list request of _get_files_in_folder is built
PruneEnter ==
  /\ main_pc = "prune"
  /\ pr_pc = "called"
  /\ IF ~has_backup_folder
       THEN /\ pr_pc' = "noop"
            /\ UNCHANGED <<bo, page_token, results>>
       ELSE /\ pr_pc' = "list"
            /\ page_token' = None
            /\ results' = <<>>
            /\ bo' = BoStart
  /\ UNCHANGED <<main_vars, worker_vars, hist, sleeps, remote_vars,
                 has_backup_folder, actual_files, files_to_del, iteration,
                 batches, pauses, page_calls, warnings, events>>

\* mutant: a page replaces what was collected before it
ExtendResultsReplace(res, page) == page

\* line 294: results.extend([f["id"] for f in response.get("files", [])])
ExtendResults(res, page) == res \o page

\* mutant: the loop stops after the first page
ListingDoneAlways(tok) == TRUE

\* lines 296-297: if not page_token: break
ListingDone(tok) == tok = None

\* lines 284-298 and 313-319: one request.execute() of the list request of
\* the current page; on its return the page is taken in, and after the last
\* page the list is filtered and the number of grouped requests computed
PruneListInvoke ==
  /\ pr_pc = "list"
  /\ bo.st = "call"
  /\ \E resp \in PruneResponses :
       LET b == Invoke(bo, resp)
           k == PageIndex(page_token)
           res == ExtendResults(results, PageFiles(k))
           tok == NextPageToken(k)
           ftd == FilesToDel(res, actual_files)
       IN  CASE b.st = "returned" /\ ~ListingDone(tok) ->
                  /\ results' = res
                  /\ page_token' = tok
                  /\ page_calls' = Append(page_calls, page_token)
                  /\ bo' = BoStart
                  /\ UNCHANGED <<pr_pc, files_to_del>>
             [] b.st = "returned" /\ ListingDone(tok) ->
                  /\ results' = res
                  /\ page_token' = tok
                  /\ page_calls' = Append(page_calls, page_token)
                  /\ files_to_del' = ftd
                  /\ bo' = BoIdle
                  /\ pr_pc' = IF Iterations(Len(ftd)) > 0 THEN "batch" ELSE "done"
             [] b.st = "raised" ->
                  /\ bo' = b
                  /\ pr_pc' = "raised"
                  /\ UNCHANGED <<results, page_token, page_calls,
                                 files_to_del>>
             [] OTHER ->
                  /\ bo' = b
                  /\ UNCHANGED <<pr_pc, results, page_token, page_calls,
                                 files_to_del>>
  /\ UNCHANGED <<main_vars, worker_vars, hist, sleeps, remote_vars,
                 has_backup_folder, actual_files, iteration, batches, pauses,
                 warnings, events>>

\* mutant: only the first grouped request is preceded by the pause
PruneBatchStartPauseOnce ==
  /\ pr_pc = "batch"
  /\ bo.st = "idle"
  /\ pauses' = IF iteration = 0 THEN pauses + BatchPause ELSE pauses
  /\ events' = IF iteration = 0 THEN Append(events, "pause") ELSE events
  /\ batches' = Append(batches, ChunkOf(files_to_del, iteration))
  /\ bo' = BoStart
  /\ UNCHANGED <<main_vars, worker_vars, hist, sleeps, remote_vars,
                 has_backup_folder, actual_files, pr_pc, page_token, results,
                 files_to_del, iteration, page_calls, warnings>>

\* lines 330-337: the pause, then the grouped request of this loop index is
\* built from its slice of files_to_del
PruneBatchStart ==
  /\ pr_pc = "batch"
  /\ bo.st = "idle"
  /\ pauses' = pauses + BatchPause
  /\ events' = Append(events, "pause")
  /\ batches' = Append(batches, ChunkOf(files_to_del, iteration))
  /\ bo' = BoStart
  /\ UNCHANGED <<main_vars, worker_vars, hist, sleeps, remote_vars,
                 has_backup_folder, actual_files, pr_pc, page_token, results,
                 files_to_del, iteration, page_calls, warnings>>

\* mutant: the callback reports the request ID without the slice offset
RequestNumberNoOffset(it, request_id) == request_id

\* line 325: (iteration * 100) + int(request_id)
RequestNumber(it, request_id) == (it * 100) + request_id

\* lines 321-327: the callback is called once per delete of the grouped
\* request, with request_id "1", "2", ... in the order the deletes were
\* added, and logs a warning for those that come with an exception; the
\* sequence of the numbers it logs for the slice of loop index it
CallbackWarnings(chunk, it) ==
  LET failed == SelectSeq([j \in 1..Len(chunk) |-> j],
                          LAMBDA j : chunk[j] \in undeletable)
  IN  [k \in 1..Len(failed) |-> RequestNumber(it, failed[k])]

\* mutant: an exception of the grouped request is swallowed and the loop
\* goes on with the next slice
PruneBatchInvokeSwallow ==
  /\ pr_pc = "batch"
  /\ bo.st = "call"
  /\ events' = IF bo.calls = 0 THEN Append(events, "submit") ELSE events
  /\ \E resp \in PruneResponses :
       LET b == Invoke(bo, resp)
           chunk == batches[Len(batches)]
       IN
       CASE b.st = "returned" ->
              /\ removed' = removed \cup (SeqRange(chunk) \ undeletable)
              /\ warnings' = warnings \o CallbackWarnings(chunk, iteration)
              /\ iteration' = iteration + 1
              /\ bo' = BoIdle
              /\ pr_pc' = IF iteration + 1 < Iterations(Len(files_to_del))
                            THEN "batch" ELSE "done"
         [] b.st = "raised" ->
              /\ iteration' = iteration + 1
              /\ bo' = BoIdle
              /\ pr_pc' = IF iteration + 1 < Iterations(Len(files_to_del))
                            THEN "batch" ELSE "done"
              /\ UNCHANGED <<removed, warnings>>
         [] OTHER ->
              /\ bo' = b
              /\ UNCHANGED <<pr_pc, removed, warnings, iteration>>
  /\ UNCHANGED <<main_vars, worker_vars, hist, sleeps, drive, n_pages,
                 undeletable, has_backup_folder, actual_files, page_token,
                 results, files_to_del, batches, pauses, page_calls>>

\* line 338: one request.execute() of the grouped request; when it returns
\* the service has carried out the deletes it accepts, the callback has
\* been called for each delete, and the loop goes on
PruneBatchInvoke ==
  /\ pr_pc = "batch"
  /\ bo.st = "call"
  /\ events' = IF bo.calls = 0 THEN Append(events, "submit") ELSE events
  /\ \E resp \in PruneResponses :
       LET b == Invoke(bo, resp)
           chunk == batches[Len(batches)]
       IN
       CASE b.st = "returned" ->
              /\ removed' = removed \cup (SeqRange(chunk) \ undeletable)
              /\ warnings' = warnings \o CallbackWarnings(chunk, iteration)
              /\ iteration' = iteration + 1
              /\ bo' = BoIdle
              /\ pr_pc' = IF iteration + 1 < Iterations(Len(files_to_del))
                            THEN "batch" ELSE "done"
         [] b.st = "raised" ->
              /\ bo' = b
              /\ pr_pc' = "raised"
              /\ UNCHANGED <<removed, warnings, iteration>>
         [] OTHER ->
              /\ bo' = b
              /\ UNCHANGED <<pr_pc, removed, warnings, iteration>>
  /\ UNCHANGED <<main_vars, worker_vars, hist, sleeps, drive, n_pages,
                 undeletable, has_backup_folder, actual_files, page_token,
                 results, files_to_del, batches, pauses, page_calls>>

\* line 367 inside a list or batch call: the backoff sleep ends
PruneSleep ==
  /\ pr_pc \in {"list", "batch"}
  /\ bo.st = "sleep"
  /\ bo' = AfterSleep(bo)
  /\ pr_pc' = IF bo'.st = "returned" THEN "raised" ELSE pr_pc
  /\ UNCHANGED <<main_vars, worker_vars, hist, sleeps, remote_vars,
                 has_backup_folder, actual_files, page_token, results,
                 files_to_del, iteration, batches, pauses, page_calls,
                 warnings, events>>

PruneStep ==
  PruneEnter \/ PruneListInvoke \/ PruneBatchStart \/ PruneBatchInvoke
    \/ PruneSleep

\* ------------------------------------------------------------------------
\* Specification of one clean_backup_folder call: the destination folder
\* holds the objects 1..N and the list to keep is drawn from IDs at the
\* ends of the listing and around the first slice boundary
\* ------------------------------------------------------------------------
KeepCandidates(N) == {1, BatchLimit, BatchLimit + 1, N, N + 1}

KeepSets(N) == {S \in SUBSET KeepCandidates(N) : Cardinality(S) <= MaxKeep}

PruneInit ==
  /\ bo = BoIdle /\ hist = <<>> /\ sleeps = <<>>
  /\ \E N \in 0..MaxFiles :
       /\ drive = [i \in 1..N |-> i]
       /\ actual_files \in KeepSets(N)
  /\ removed = {}
  /\ n_pages \in 1..MaxPages
  /\ has_backup_folder \in BOOLEAN
  /\ pr_pc = "called"
  /\ page_token = None /\ results = <<>> /\ files_to_del = <<>>
  /\ iteration = 0 /\ batches = <<>> /\ pauses = 0
  /\ undeletable = {} /\ page_calls = <<>> /\ warnings = <<>> /\ events = <<>>
  /\ NoRun("prune")

SpecPrune == PruneInit /\ [][PruneStep]_vars

\* ------------------------------------------------------------------------
\* Claims about the prune step (checked under SpecPrune)
\* ------------------------------------------------------------------------
RECURSIVE Flatten(_)
Flatten(seqs) == IF seqs = <<>> THEN <<>> ELSE Head(seqs) \o Flatten(Tail(seqs))

\* the IDs for which a delete request was added to a grouped request, in
\* the order they were added
Requested == Flatten(batches)

ListedIds == SeqRange(drive)

\* C4: the IDs for which the prune step submits a delete request are
\* exactly the listed IDs that are not in the list to keep: none of the kept
\* IDs, none outside the listing, none twice at any time, and all of them
\* once the prune step has completed.
C4_PruneExactness ==
  /\ SeqRange(Requested) \subseteq (ListedIds \ actual_files)
  /\ Cardinality(SeqRange(Requested)) = Len(Requested)
  /\ removed \subseteq SeqRange(Requested)
  /\ pr_pc = "done" =>
       /\ SeqRange(Requested) = ListedIds \ actual_files
       /\ removed = ListedIds \ actual_files

C4_Witness ==
  /\ pr_pc = "done"
  /\ Len(batches) = 3
  /\ Cardinality(actual_files \cap ListedIds) = 2
  /\ actual_files \cap removed = {}
  /\ removed = ListedIds \ actual_files

\* C9: a deletion list of N IDs is submitted in ceil(N/100) grouped
\* requests that are consecutive slices of the list: all but the last hold
\* 100 IDs, the last holds the remaining N - 100*(ceil(N/100)-1), and put
\* end to end they are the list itself.
C9_BatchChunking ==
  LET N == Len(files_to_del)
      count == (N + 99) \div 100
  IN  /\ Len(batches) <= count
      /\ \A i \in 1..Len(batches) :
           Len(batches[i]) = IF i < count THEN 100 ELSE N - 100 * (count - 1)
      /\ Requested = SubSeq(files_to_del, 1, Len(Requested))
      /\ pr_pc = "done" /\ has_backup_folder =>
           /\ Len(batches) = count
           /\ Requested = files_to_del

C9_Witness ==
  /\ pr_pc = "done"
  /\ Len(files_to_del) = 250
  /\ Len(batches) = 3
  /\ Len(batches[1]) = 100 /\ Len(batches[2]) = 100 /\ Len(batches[3]) = 50

\* an empty deletion list gives no grouped request
C9_WitnessEmpty ==
  /\ pr_pc = "done"
  /\ Len(drive) > 0
  /\ files_to_del = <<>>
  /\ batches = <<>>

\* ------------------------------------------------------------------------
\* make_backup(folder): one task of the pool
\* ------------------------------------------------------------------------
\* os.path.join(temp_back_folder, f"{archive_name}_{now:%Y%m%d_%H-%M-%S}.zip"):
\* the staging folder is the same for every task, so the path is the pair
\* of the folder's base name and the second the task read
ZipName(b, ts) == <<b, ts>>

\* zipfile_path of the folder's staging archive
ZipPath(f) == zip_path[f]

\* the ID the service gives the object created by the folder's upload
NewId(f) == MaxFiles + 1 + f

\* what the create request's request.execute() can do
UploadResponses(f) == {OkResp(NewId(f)), HttpErr(503), HttpErr(403)}

Active == {"archiving", "uploading", "cleaning"}
FailedStates == {"failed_archive", "failed_upload", "failed_remove"}
Settled == {"done"} \cup FailedStates

\* a pool process takes the task from the queue
WorkerStart(f) ==
  /\ worker[f] = "pending"
  /\ worker' = [worker EXCEPT ![f] = "archiving"]
  /\ UNCHANGED <<main_vars, wbo, file_id, result, disk, zip_vars, walk_vars, retry_vars,
                 remote_vars, prune_vars>>

\* line 475, ZipMaker(folder=folder).run(): the archive is written and
\* closed, or an exception leaves the task, before the archive file was
\* created (reading the config) or after (writing an entry); the name of
\* the archive holds the second read from the clock
WorkerArchive(f) ==
  /\ worker[f] = "archiving"
  /\ \E outcome \in {"written", "no_file", "partial_file"} :
     \E ts \in clock..MaxClock :
       /\ worker' = [worker EXCEPT ![f] =
                       IF outcome = "written" THEN "uploading"
                       ELSE "failed_archive"]
       /\ wbo' = [wbo EXCEPT ![f] =
                    IF outcome = "written" THEN BoStart ELSE BoIdle]
       /\ clock' = ts
       /\ IF outcome = "no_file"
            THEN UNCHANGED <<disk, zip_path>>
            ELSE /\ zip_path' = [zip_path EXCEPT ![f] = ZipName(base[f], ts)]
                 /\ disk' = disk \cup {ZipName(base[f], ts)}
  /\ UNCHANGED <<main_vars, file_id, result, base, walk_vars, retry_vars,
                 remote_vars,
                 prune_vars>>

\* line 476, upload_file: MediaFileUpload opens the archive (it raises
\* when the file is gone), then one request.execute() of the create
\* request; on its return the object exists (in the destination folder if
\* one is configured) and file["id"] is taken; an exception leaves the task
WorkerUploadInvoke(f) ==
  /\ worker[f] = "uploading"
  /\ wbo[f].st = "call"
  /\ \E resp \in UploadResponses(f) :
       LET b == Invoke(wbo[f], resp) IN
       CASE wbo[f].calls = 0 /\ ZipPath(f) \notin disk ->
              /\ worker' = [worker EXCEPT ![f] = "failed_upload"]
              /\ wbo' = [wbo EXCEPT ![f] = BoIdle]
              /\ UNCHANGED <<file_id, drive>>
         [] (wbo[f].calls > 0 \/ ZipPath(f) \in disk) /\ b.st = "returned" ->
              /\ worker' = [worker EXCEPT ![f] = "cleaning"]
              /\ file_id' = [file_id EXCEPT ![f] = b.value]
              /\ wbo' = [wbo EXCEPT ![f] = BoIdle]
              /\ drive' = IF has_backup_folder THEN Append(drive, b.value)
                          ELSE drive
         [] (wbo[f].calls > 0 \/ ZipPath(f) \in disk) /\ b.st = "raised" ->
              /\ worker' = [worker EXCEPT ![f] = "failed_upload"]
              /\ wbo' = [wbo EXCEPT ![f] = BoIdle]
              /\ UNCHANGED <<file_id, drive>>
         [] OTHER ->
              /\ wbo' = [wbo EXCEPT ![f] = b]
              /\ UNCHANGED <<worker, file_id, drive>>
  /\ UNCHANGED <<main_vars, result, disk, zip_vars, walk_vars, retry_vars, removed,
                 n_pages, undeletable, prune_vars>>

\* line 367 inside the upload's call: the backoff sleep ends
WorkerUploadSleep(f) ==
  /\ worker[f] = "uploading"
  /\ wbo[f].st = "sleep"
  /\ LET b == AfterSleep(wbo[f]) IN
       IF b.st = "returned"
         THEN /\ worker' = [worker EXCEPT ![f] = "failed_upload"]
              /\ wbo' = [wbo EXCEPT ![f] = BoIdle]
         ELSE /\ wbo' = [wbo EXCEPT ![f] = b]
              /\ UNCHANGED worker
  /\ UNCHANGED <<main_vars, file_id, result, disk, zip_vars, walk_vars, retry_vars,
                 remote_vars, prune_vars>>

\* lines 477-479: os.remove(zipfile_path), then the ID is returned; an
\* OSError of os.remove (always raised when the file is gone) leaves the
\* task as any other exception does
WorkerCleanLocal(f) ==
  /\ worker[f] = "cleaning"
  /\ \E remove_ok \in BOOLEAN :
       IF remove_ok /\ ZipPath(f) \in disk
         THEN /\ disk' = disk \ {ZipPath(f)}
              /\ result' = [result EXCEPT ![f] = file_id[f]]
              /\ worker' = [worker EXCEPT ![f] = "done"]
         ELSE /\ worker' = [worker EXCEPT ![f] = "failed_remove"]
              /\ UNCHANGED <<disk, result>>
  /\ UNCHANGED <<main_vars, wbo, file_id, zip_vars, walk_vars, retry_vars, remote_vars,
                 prune_vars>>

WorkerStep(f) ==
  WorkerStart(f) \/ WorkerArchive(f) \/ WorkerUploadInvoke(f)
    \/ WorkerUploadSleep(f) \/ WorkerCleanLocal(f)

\* ------------------------------------------------------------------------
\* main
\* ------------------------------------------------------------------------
\* line 482, @log.catch: loguru's catch(exception=Exception, reraise=False)
\* logs an Exception raised in main and does not raise it again, so main
\* returns None; SystemExit (exit(0)) is not an Exception and passes
CatchReraise == FALSE

\* exit status of the process when an Exception was raised in main
ExitAfterException == IF CatchReraise THEN 1 ELSE 0

\* lines 508-512: check_token() raises when the token file is absent;
\* with --fetch-token the token is fetched (unless present) and exit(0)
MainStart ==
  /\ main_pc = "start"
  /\ IF ~fetch_token
       THEN /\ main_pc' = IF token_file THEN "resolve" ELSE "raised"
            /\ UNCHANGED <<token_file, exit_code>>
       ELSE \E fetched \in BOOLEAN :
              IF token_file \/ fetched
                THEN /\ token_file' = TRUE
                     /\ main_pc' = "exited"
                     /\ exit_code' = 0
                ELSE /\ main_pc' = "raised"
                     /\ UNCHANGED <<token_file, exit_code>>
  /\ UNCHANGED <<fetch_token, no_backup_clean, folders_arg, cfg_folders,
                 caught, folders, worker_vars, retry_vars, remote_vars,
                 prune_vars>>

\* lines 514-524: the folders are resolved; none raises, otherwise one task
\* per folder is put on the pool's queue
MainDispatch ==
  /\ main_pc = "resolve"
  /\ LET fs == IF folders_arg # {} THEN folders_arg ELSE cfg_folders IN
       IF fs = {}
         THEN /\ main_pc' = "raised"
              /\ UNCHANGED <<folders, worker>>
         ELSE /\ main_pc' = "join"
              /\ folders' = fs
              /\ worker' = [f \in Folders |->
                              IF f \in fs THEN "pending" ELSE "none"]
  /\ UNCHANGED <<fetch_token, no_backup_clean, folders_arg, cfg_folders,
                 token_file, exit_code, caught, wbo, file_id, result, disk,
                 zip_vars, walk_vars, retry_vars, remote_vars, prune_vars>>

\* mutant: main does not wait for the tasks of the pool
PoolJoinedNoWait == TRUE

\* pool.join() returns, and every result can be read from the iterator:
\* every task of the pool has ended
PoolJoined == \A f \in Folders : worker[f] \in {"none"} \cup Settled

\* lines 525-529: after the join, --no-backup-clean exits; otherwise the
\* results are read, which raises the exception of a task that failed, and
\* only with every result read clean_backup_folder is called
MainJoin ==
  /\ main_pc = "join"
  /\ PoolJoined
  /\ IF no_backup_clean
       THEN /\ main_pc' = "exited"
            /\ exit_code' = 0
            /\ UNCHANGED <<actual_files, pr_pc>>
       ELSE IF \E f \in folders : worker[f] \in FailedStates
         THEN /\ main_pc' = "raised"
              /\ UNCHANGED <<exit_code, actual_files, pr_pc>>
         ELSE /\ main_pc' = "prune"
              /\ actual_files' = {result[f] : f \in folders}
              /\ pr_pc' = "called"
              /\ UNCHANGED exit_code
  /\ UNCHANGED <<fetch_token, no_backup_clean, folders_arg, cfg_folders,
                 token_file, caught, folders, worker_vars, retry_vars,
                 remote_vars, has_backup_folder, page_token, results,
                 files_to_del, iteration, batches, pauses, page_calls,
                 warnings, events>>

\* clean_backup_folder has returned, main returns; or it has raised
MainPruneEnd ==
  /\ main_pc = "prune"
  /\ pr_pc \in {"done", "noop", "raised"}
  /\ IF pr_pc = "raised"
       THEN /\ main_pc' = "raised"
            /\ UNCHANGED exit_code
       ELSE /\ main_pc' = "returned"
            /\ exit_code' = 0
  /\ UNCHANGED <<fetch_token, no_backup_clean, folders_arg, cfg_folders,
                 token_file, caught, folders, worker_vars, retry_vars,
                 remote_vars, prune_vars>>

\* line 482: the Exception raised in main reaches log.catch
MainLogCatch ==
  /\ main_pc = "raised"
  /\ caught' = TRUE
  /\ main_pc' = "returned"
  /\ exit_code' = ExitAfterException
  /\ UNCHANGED <<fetch_token, no_backup_clean, folders_arg, cfg_folders,
                 token_file, folders, worker_vars, retry_vars, remote_vars,
                 prune_vars>>

MainStep ==
  MainStart \/ MainDispatch \/ MainJoin \/ MainPruneEnd \/ MainLogCatch

\* ------------------------------------------------------------------------
\* Specification of one run of the program: the folders have distinct base
\* names, so the second in the archive's name plays no part and the run is
\* taken within the last second of the clock
\* ------------------------------------------------------------------------
Init ==
  /\ fetch_token \in BOOLEAN
  /\ no_backup_clean \in BOOLEAN
  /\ folders_arg \in SUBSET Folders
  /\ cfg_folders \in {{}, Folders}
  /\ token_file \in BOOLEAN
  /\ main_pc = "start" /\ exit_code = -1 /\ caught = FALSE /\ folders = {}
  /\ worker = [f \in Folders |-> "none"]
  /\ wbo = [f \in Folders |-> BoIdle]
  /\ file_id = [f \in Folders |-> None]
  /\ result = [f \in Folders |-> None]
  /\ disk = {}
  /\ base = [f \in Folders |-> f]
  /\ clock = MaxClock
  /\ zip_path = [f \in Folders |-> <<>>]
  /\ NoWalk
  /\ bo = BoIdle /\ hist = <<>> /\ sleeps = <<>>
  /\ \E k \in 0..MaxOld : drive = [i \in 1..k |-> i]
  /\ removed = {}
  /\ n_pages \in 1..MaxPages
  /\ has_backup_folder \in BOOLEAN
  /\ actual_files = {} /\ pr_pc = "idle"
  /\ page_token = None /\ results = <<>> /\ files_to_del = <<>>
  /\ iteration = 0 /\ batches = <<>> /\ pauses = 0
  /\ undeletable = {} /\ page_calls = <<>> /\ warnings = <<>> /\ events = <<>>

Next == MainStep \/ (\E f \in Folders : WorkerStep(f)) \/ PruneStep

Spec == Init /\ [][Next]_vars

\* ------------------------------------------------------------------------
\* Claims about a run of the program (checked under Spec)
\* ------------------------------------------------------------------------
AllSettled == \A f \in folders : worker[f] \in Settled

\* main has ended after the tasks of the pool were joined
RunEnded == main_pc \in {"returned", "exited"} /\ folders # {}

\* C5: in a run with pruning enabled where folder A's task fails in its
\* archive or upload step and folder B's succeeds, the prune step is handed
\* a list that holds B's object ID and not A's, and B's object is not
\* deleted.
C5_OrchestratorIsolation ==
  \A A \in folders : \A B \in folders :
    ( /\ RunEnded
      /\ ~no_backup_clean
      /\ worker[A] \in {"failed_archive", "failed_upload"}
      /\ worker[B] = "done" )
    => /\ pr_pc # "idle"
       /\ result[B] \in actual_files
       /\ NewId(A) \notin actual_files
       /\ result[B] \notin removed

\* C6: with pruning enabled and a destination folder configured, the prune
\* step is executed after the tasks have settled also when a folder failed
\* in this run, and a completed prune step has deleted every listed object
\* that was not uploaded in this run.
C6_PruneAfterPartialFailure ==
  ( /\ RunEnded
    /\ ~no_backup_clean
    /\ has_backup_folder
    /\ \E f \in folders : worker[f] \in FailedStates )
  => /\ pr_pc \in {"done", "raised"}
     /\ pr_pc = "done" => removed = ListedIds \ {result[f] : f \in folders}

\* C7: in every terminal state of a task, done after a successful upload or
\* failed after a terminal or retries-exhausted upload failure, the staging
\* archive the task created is no longer on the local disk.
C7_StagingLifetime ==
  \A f \in Folders :
    worker[f] \in {"done", "failed_upload"} => ZipPath(f) \notin disk

\* a list or batch request.execute() is invoked in this step
PruneRequestIssued ==
  /\ pr_pc \in {"list", "batch"}
  /\ bo.st = "call"
  /\ bo'.calls = bo.calls + 1

\* C8: the prune step starts only after every dispatched folder's task has
\* ended, successfully or not, and no list or delete request is issued
\* while a task is pending or in progress.
C8_PruneBarrier ==
  /\ [](pr_pc # "idle" => AllSettled)
  /\ [][PruneRequestIssued => AllSettled /\ AllSettled']_vars

C8_Witness ==
  /\ Cardinality(folders) = 2
  /\ AllSettled
  /\ pr_pc = "done"
  /\ Len(batches) = 1
  /\ removed # {}

\* C10: when no folder is resolved, or the token is absent and
\* --fetch-token was not given, the error leaves the entry point uncaught,
\* the process ends with a non-zero status and no task was dispatched.
C10_FatalExit ==
  ( /\ main_pc \in {"returned", "exited"}
    /\ ~fetch_token
    /\ (~token_file \/ (folders_arg = {} /\ cfg_folders = {})) )
  => /\ exit_code # 0
     /\ ~caught
     /\ \A f \in Folders : worker[f] = "none"

\* C11: list and delete requests are issued only without --no-backup-clean
\* and with a destination folder configured. With --no-backup-clean the run
\* ends after the tasks without the prune step being entered; without a
\* destination folder the prune step logs its error and returns normally,
\* main returns with no exception, and nothing was listed or deleted.
C11_PruneGating ==
  /\ [][PruneRequestIssued => ~no_backup_clean /\ has_backup_folder]_vars
  /\ [](no_backup_clean =>
          /\ pr_pc = "idle" /\ bo = BoIdle
          /\ batches = <<>> /\ removed = {}
          /\ (main_pc \in {"returned", "exited"} /\ folders # {}) =>
               main_pc = "exited" /\ exit_code = 0 /\ AllSettled)
  /\ [](~has_backup_folder =>
          /\ pr_pc \in {"idle", "called", "noop"}
          /\ bo = BoIdle /\ results = <<>>
          /\ batches = <<>> /\ removed = {}
          /\ (main_pc = "returned" /\ pr_pc = "noop") => ~caught /\ exit_code = 0)

\* the prune step was entered without a destination folder and returned
C11_Witness ==
  /\ ~has_backup_folder
  /\ ~no_backup_clean
  /\ pr_pc = "noop"
  /\ main_pc = "returned"
  /\ ~caught
  /\ Len(drive) > 0

\* the run ended after the tasks because of --no-backup-clean
C11_WitnessNoClean ==
  /\ no_backup_clean
  /\ has_backup_folder
  /\ main_pc = "exited"
  /\ \E f \in folders : worker[f] = "done"
  /\ pr_pc = "idle"

\* C13: when os.remove of the staging archive fails after a successful
\* upload, make_backup still returns the uploaded object's ID: the task
\* counts as succeeded and its ID is in the list handed to the prune step.
C13_BestEffortCleanup ==
  \A f \in Folders :
    (file_id[f] # None /\ worker[f] \in Settled) =>
      /\ worker[f] = "done"
      /\ result[f] = file_id[f]

\* ------------------------------------------------------------------------
\* Specification of the tasks of one pool (lines 522-525): every folder has
\* a task on the queue, the folders have any base names (two folders of
\* different parents can share one) and the tasks read any seconds of the
\* clock
\* ------------------------------------------------------------------------
StageInit ==
  /\ fetch_token = FALSE /\ no_backup_clean = FALSE
  /\ folders_arg = Folders /\ cfg_folders = {} /\ token_file = TRUE
  /\ main_pc = "join" /\ exit_code = -1 /\ caught = FALSE
  /\ folders = Folders
  /\ worker = [f \in Folders |-> "pending"]
  /\ wbo = [f \in Folders |-> BoIdle]
  /\ file_id = [f \in Folders |-> None]
  /\ result = [f \in Folders |-> None]
  /\ disk = {}
  /\ base \in [Folders -> 1..MaxBases]
  /\ clock = 0
  /\ zip_path = [f \in Folders |-> <<>>]
  /\ NoWalk
  /\ bo = BoIdle /\ hist = <<>> /\ sleeps = <<>>
  /\ drive = <<>> /\ removed = {} /\ n_pages = 1
  /\ has_backup_folder = TRUE
  /\ actual_files = {} /\ pr_pc = "idle"
  /\ page_token = None /\ results = <<>> /\ files_to_del = <<>>
  /\ iteration = 0 /\ batches = <<>> /\ pauses = 0
  /\ undeletable = {} /\ page_calls = <<>> /\ warnings = <<>> /\ events = <<>>

StageNext == \E f \in Folders : WorkerStep(f)

SpecStage == StageInit /\ [][StageNext]_vars

\* C14: two distinct folders of a run never have the same staging archive
\* path, whatever their base names and the seconds at which they are
\* archived.
C14_StagingOwnership ==
  \A f \in Folders : \A g \in Folders :
    (f # g /\ zip_path[f] # <<>> /\ zip_path[g] # <<>>) =>
      zip_path[f] # zip_path[g]

\* the steps a task may take from one state of make_backup to the next
\* (a folder's task is pending from its dispatch on)
FolderMoves ==
  {<<"none", "pending">>, <<"pending", "archiving">>, <<"archiving", "uploading">>,
   <<"uploading", "cleaning">>, <<"cleaning", "done">>,
   <<"archiving", "failed_archive">>, <<"uploading", "failed_upload">>,
   <<"cleaning", "failed_remove">>}

\* C16: each folder's task moves only along pending, archiving, uploading,
\* cleaning, done, or to a failed state; an upload request is issued only
\* in the uploading state, which is entered when the archive is written;
\* the folder's local archive leaves the disk only after the folder's
\* upload has returned an object ID; done is reached only with that ID
\* returned; done and the failed states are never left.
C16_FolderStateMachine ==
  [][\A f \in Folders :
       /\ worker'[f] # worker[f] => <<worker[f], worker'[f]>> \in FolderMoves
       /\ worker[f] \in Settled => worker'[f] = worker[f]
       /\ wbo'[f].calls > wbo[f].calls => worker[f] = "uploading"
       /\ (worker[f] # "uploading" /\ worker'[f] = "uploading") =>
            ZipPath(f)' \in disk'
       /\ (ZipPath(f) \in disk /\ ZipPath(f) \notin disk') => file_id[f] # None
       /\ worker'[f] = "done" => file_id'[f] # None /\ result'[f] = file_id'[f]
    ]_vars

\* ------------------------------------------------------------------------
\* Claims about the listing and the deletes of the prune step (checked
\* under SpecPrune)
\* ------------------------------------------------------------------------
\* the listing of _get_files_in_folder has returned
ListingReturned == pr_pc \in {"batch", "done"} \/ batches # <<>>

\* C17: the listing makes one list call per page through the retrying call,
\* the first with no token and each later one with the token the page
\* before returned, and stops at the first page without a token; with p
\* pages it ends after exactly p list calls that returned, and its result
\* is exactly the IDs of all p pages.
C17_PaginatedListing ==
  /\ Len(page_calls) <= n_pages
  /\ \A i \in 1..Len(page_calls) :
       page_calls[i] = IF i = 1 THEN None ELSE NextPageToken(i - 1)
  /\ pr_pc = "list" =>
       /\ bo.st \in {"call", "sleep"}
       /\ Len(page_calls) < n_pages
       /\ PageIndex(page_token) = Len(page_calls) + 1
       /\ results = SubSeq(drive, 1, Min(Len(page_calls) * PageLen, Len(drive)))
  /\ ListingReturned =>
       /\ Len(page_calls) = n_pages
       /\ page_token = None
       /\ results = drive

\* a listing of three pages has returned all the objects
C17_Witness ==
  /\ ListingReturned
  /\ n_pages = 3
  /\ page_calls = <<None, 2, 3>>
  /\ Len(results) > 2 * BatchLimit

\* C20: no delete request is built or carried out before the listing has
\* retrieved every page; a list call that raises (a terminal failure or
\* the fifth retryable one) ends the prune step with that error, nothing
\* was deleted, and nothing is deleted afterwards.
C20_ListBeforeDelete ==
  /\ [][(batches' # batches \/ removed' # removed \/ events' # events) =>
          /\ pr_pc = "batch"
          /\ Len(page_calls) = n_pages
          /\ results = drive]_vars
  /\ [][(pr_pc = "list" /\ bo'.st = "raised") =>
          /\ pr_pc' = "raised"
          /\ bo'.err \in {"HttpError", "Exception"}
          /\ removed' = {} /\ batches' = <<>> /\ events' = <<>>]_vars
  /\ [][pr_pc = "raised" => UNCHANGED <<pr_pc, removed, batches, events>>]_vars

\* the list call of the second page has raised after the first page was
\* taken in
C20_Witness ==
  /\ pr_pc = "raised"
  /\ Len(page_calls) = 1
  /\ n_pages > 1
  /\ Len(results) > 0
  /\ removed = {} /\ batches = <<>>

\* the "pause" or "submit" events among the first k
EventCount(kind, k) == Cardinality({i \in 1..k : events[i] = kind})

\* C19: every submission of a grouped delete request comes directly after
\* a pause of 2 time units, so between any two consecutive submissions
\* there is such a pause and no two submissions follow each other without
\* one.
C19_DeletionPacing ==
  /\ \A i \in 1..Len(events) :
       events[i] = IF i % 2 = 1 THEN "pause" ELSE "submit"
  /\ \A i \in 1..Len(events) : \A j \in 1..Len(events) :
       (i < j /\ events[i] = "submit" /\ events[j] = "submit") =>
         \E k \in (i + 1)..(j - 1) : events[k] = "pause"
  /\ pauses = 2 * EventCount("pause", Len(events))
  /\ EventCount("submit", Len(events)) <= Len(batches)
  /\ pr_pc = "done" => EventCount("submit", Len(events)) = Len(batches)

\* three grouped requests were submitted
C19_Witness ==
  /\ pr_pc = "done"
  /\ events = <<"pause", "submit", "pause", "submit", "pause", "submit">>
  /\ pauses = 6

\* ------------------------------------------------------------------------
\* Specification of one clean_backup_folder call in which the service
\* refuses the delete of some objects: the destination folder holds the
\* objects 1..N in one page, the list to keep is empty or holds the first
\* object, and the refused IDs are drawn from the ends of the listing and
\* around the first slice boundary
\* ------------------------------------------------------------------------
UndeletableSets(N) ==
  {S \in SUBSET (KeepCandidates(N) \cap 1..N) : Cardinality(S) <= MaxUndeletable}

DeleteInit ==
  /\ bo = BoIdle /\ hist = <<>> /\ sleeps = <<>>
  /\ \E N \in 0..MaxFiles :
       /\ drive = [i \in 1..N |-> i]
       /\ undeletable \in UndeletableSets(N)
  /\ actual_files \in {{}, {1}}
  /\ removed = {}
  /\ n_pages = 1
  /\ has_backup_folder = TRUE
  /\ pr_pc = "called"
  /\ page_token = None /\ results = <<>> /\ files_to_del = <<>>
  /\ iteration = 0 /\ batches = <<>> /\ pauses = 0
  /\ page_calls = <<>> /\ warnings = <<>> /\ events = <<>>
  /\ NoRun("prune")

SpecDelete == DeleteInit /\ [][PruneStep]_vars

\* the positions (from 1) of files_to_del, among the first k, whose delete
\* the service refuses
RefusedPositions(k) ==
  SelectSeq([p \in 1..k |-> p], LAMBDA p : files_to_del[p] \in undeletable)

\* C18: a delete that fails inside a grouped request stops neither the
\* other deletes of its slice nor the later slices, and it is reported with
\* 100 * (index of the slice) + (its request index within the slice, from
\* 1), a number that differs for every position of the deletion list.
C18_DeleteIsolation ==
  LET handled == Min(iteration * 100, Len(files_to_del))
      refused == RefusedPositions(handled)
  IN  /\ Len(warnings) = Len(refused)
      /\ \A k \in 1..Len(refused) :
           warnings[k] = 100 * ((refused[k] - 1) \div 100)
                           + ((refused[k] - 1) % 100) + 1
      /\ \A i \in 1..Len(warnings) : \A j \in 1..Len(warnings) :
           i # j => warnings[i] # warnings[j]
      /\ removed = {files_to_del[p] : p \in 1..handled} \ undeletable
      /\ pr_pc = "done" =>
           /\ handled = Len(files_to_del)
           /\ Len(batches) = Iterations(Len(files_to_del))
           /\ removed = SeqRange(files_to_del) \ undeletable

\* a delete of the first slice and one of the second were refused, the
\* third slice was still carried out
C18_Witness ==
  /\ pr_pc = "done"
  /\ Len(batches) = 3
  /\ Len(warnings) = 2
  /\ warnings[1] <= 100 /\ warnings[2] > 100
  /\ Cardinality(removed) > 200

\* ------------------------------------------------------------------------
\* ZipMaker._prepare_folder_for_backup
\* ------------------------------------------------------------------------
Names == 1..MaxNames

\* the name of a file that no directory is called by
PlainFile == MaxNames + 1

\* mutant: only the last component of the path is looked at
ValidatePathBasename(path, names) ==
  names # {} /\ path[Len(path)] \in names

\* lines 423-432, _validate_path: some excluded name is among the
\* components of the path
ValidatePath(path, names) ==
  names # {} /\ \E n \in names : n \in SeqRange(path)

\* os.path.basename(address)
Basename(address) == address[Len(address)]

\* os.path.relpath(address, start=start) for an address below start
RelPath(address, start) == SubSeq(address, Len(start) + 1, Len(address))

\* the dirs and the files that os.walk yields with a directory: the names
\* of its sub-directories, and the names of its files (every name that is
\* no sub-directory is a file, and so is PlainFile)
DirsOf(address) ==
  SelectSeq(fs_order,
            LAMBDA n : Append(RelPath(address, folder), n) \in fs_dirs)

FilesOf(address) ==
  Append(SelectSeq(fs_order,
                   LAMBDA n :
                     Append(RelPath(address, folder), n) \notin fs_dirs),
         PlainFile)

\* lines 404-415: the entry of one file of the directory at address
PreparedFile(address, file, abs_root, root) ==
  [absolute_filepath |-> Append(address, file),
   filepath |-> IF address = abs_root
                  THEN <<root, file>>
                  ELSE <<root>> \o RelPath(address, abs_root) \o <<file>>]

\* lines 400-420: one iteration of the loop over os.walk(self.folder), top
\* down: an address that _validate_path rejects is skipped (its
\* sub-directories are still yielded later), otherwise the root paths are
\* set if they are not yet and an entry is appended for each of its files
WalkStep ==
  /\ walk_todo # <<>>
  /\ LET address == Head(walk_todo)
         dirs == DirsOf(address)
         files == FilesOf(address)
         abs_root == IF absolute_root_path # <<>> THEN absolute_root_path
                     ELSE address
         root == IF root_path # None THEN root_path ELSE Basename(address)
     IN  /\ walk_todo' = [i \in 1..Len(dirs) |-> Append(address, dirs[i])]
                           \o Tail(walk_todo)
         /\ IF ValidatePath(address, exclude_folder_names)
              THEN UNCHANGED <<prepared_files, absolute_root_path, root_path>>
              ELSE /\ absolute_root_path' = abs_root
                   /\ root_path' = root
                   /\ prepared_files' = prepared_files \o
                        [i \in 1..Len(files) |->
                           PreparedFile(address, files[i], abs_root, root)]
  /\ UNCHANGED <<main_vars, worker, wbo, file_id, result, disk, zip_vars,
                 folder, exclude_folder_names, fs_dirs, fs_order, retry_vars,
                 remote_vars, prune_vars>>

\* ------------------------------------------------------------------------
\* Specification of one walk: the folder has an absolute path of up to
\* MaxRootLen components, its tree is the complete tree of MaxDepth levels
\* or that tree without one sub-tree, and the exclusion set is any set of
\* directory names (none for a missing or empty "exclude_folder_names")
\* ------------------------------------------------------------------------
RelDirs == UNION {[1..k -> Names] : k \in 0..MaxDepth}

IsPrefix(p, q) == Len(p) <= Len(q) /\ SubSeq(q, 1, Len(p)) = p

Trees ==
  {RelDirs} \cup
    {{d \in RelDirs : ~IsPrefix(m, d)} : m \in RelDirs \ {<<>>}}

RootPaths == {<<0>> \o r : r \in UNION {[1..k -> Names] : k \in 1..MaxRootLen}}

ListingOrders ==
  {o \in [1..MaxNames -> Names] : \A i, j \in 1..MaxNames : o[i] = o[j] => i = j}

WalkInit ==
  /\ folder \in RootPaths
  /\ exclude_folder_names \in SUBSET Names
  /\ fs_dirs \in Trees
  /\ fs_order \in ListingOrders
  /\ walk_todo = <<folder>>
  /\ prepared_files = <<>> /\ absolute_root_path = <<>> /\ root_path = None
  /\ fetch_token = FALSE /\ no_backup_clean = FALSE
  /\ folders_arg = {} /\ cfg_folders = {} /\ token_file = TRUE
  /\ main_pc = "walk" /\ exit_code = -1 /\ caught = FALSE /\ folders = {}
  /\ worker = [f \in Folders |-> "none"]
  /\ wbo = [f \in Folders |-> BoIdle]
  /\ file_id = [f \in Folders |-> None]
  /\ result = [f \in Folders |-> None]
  /\ disk = {}
  /\ base = [f \in Folders |-> 1]
  /\ clock = 0
  /\ zip_path = [f \in Folders |-> <<>>]
  /\ bo = BoIdle /\ hist = <<>> /\ sleeps = <<>>
  /\ drive = <<>> /\ removed = {} /\ n_pages = 1
  /\ has_backup_folder = TRUE /\ actual_files = {} /\ pr_pc = "idle"
  /\ page_token = None /\ results = <<>> /\ files_to_del = <<>>
  /\ iteration = 0 /\ batches = <<>> /\ pauses = 0
  /\ undeletable = {} /\ page_calls = <<>> /\ warnings = <<>> /\ events = <<>>

SpecWalk == WalkInit /\ [][WalkStep]_vars

\* the path of the directory a file is in
DirPath(file) == SubSeq(file, 1, Len(file) - 1)

\* the path is that of a file of the tree: it lies in a directory of the
\* tree and its name is PlainFile or a name no sub-directory has
IsFile(path) ==
  /\ Len(path) > Len(folder)
  /\ IsPrefix(folder, path)
  /\ RelPath(DirPath(path), folder) \in fs_dirs
  /\ \/ Basename(path) = PlainFile
     \/ Basename(path) \in Names /\ RelPath(path, folder) \notin fs_dirs

\* the files of the tree
AllFiles ==
  {p \in {folder \o Append(d, n) : d \in fs_dirs, n \in Names \cup {PlainFile}} :
     IsFile(p)}

Excluded(file) == \E n \in exclude_folder_names : n \in SeqRange(DirPath(file))

PreparedPaths ==
  {prepared_files[i].absolute_filepath : i \in 1..Len(prepared_files)}

\* C12: the prepared entries hold no file whose directory path has a
\* component in the exclusion set (so nothing below a matched directory,
\* at any depth), and when the walk has ended they hold every file of the
\* tree whose directory path has no such component.
C12_Exclusion ==
  /\ \A i \in 1..Len(prepared_files) :
       /\ IsFile(prepared_files[i].absolute_filepath)
       /\ ~Excluded(prepared_files[i].absolute_filepath)
  /\ (folder # <<>> /\ walk_todo = <<>>) =>
       LET prepared == PreparedPaths IN
       \A file \in AllFiles : ~Excluded(file) => file \in prepared

\* the walk has ended; a file two levels below a matched directory, whose
\* own directory has another name, is left out, and a file that has the
\* name of an excluded directory is kept
C12_Witness ==
  /\ folder # <<>> /\ walk_todo = <<>>
  /\ \E file \in AllFiles \ PreparedPaths :
       /\ Len(file) = Len(folder) + 3
       /\ file[Len(folder) + 1] \in exclude_folder_names
       /\ file[Len(folder) + 2] \notin exclude_folder_names
  /\ \E file \in PreparedPaths : Basename(file) \in exclude_folder_names
\* the grouped request of the current slice has raised
BatchRaised == pr_pc = "raised" /\ batches # <<>>

\* C21: a grouped request that fails as a whole, with a terminal error or
\* on its fifth retryable failure, ends the prune step with that error:
\* the loop moves past a slice only when its grouped request has returned,
\* no later slice is ever built or submitted, the IDs of the failed and of
\* all later slices stay undeleted, and the deletes of the earlier slices
\* stand.
C21_ChunkFailure ==
  /\ [](LET handled == Min(iteration * 100, Len(files_to_del)) IN
          /\ Len(batches) \in {iteration, iteration + 1}
          /\ removed = {files_to_del[p] : p \in 1..handled} \ undeletable
          /\ BatchRaised =>
               /\ Len(batches) = iteration + 1
               /\ EventCount("submit", Len(events)) = iteration + 1
               /\ iteration < Iterations(Len(files_to_del))
               /\ \/ bo.err = "HttpError" /\ ~Retryable(bo.status)
                  \/ bo.err = "Exception" /\ bo.calls = 5
               /\ \A p \in (handled + 1)..Len(files_to_del) :
                    files_to_del[p] \notin removed)
  /\ [][(pr_pc = "batch" /\ Invoke(bo, HttpErr(403)).st = "raised"
           /\ bo' = Invoke(bo, HttpErr(403))) =>
          pr_pc' = "raised" /\ UNCHANGED <<removed, batches, iteration>>]_vars
  /\ [][(pr_pc = "batch" /\ bo.st = "call" /\ bo.n = 4
           /\ bo' = Invoke(bo, HttpErr(503))) =>
          pr_pc' = "raised" /\ UNCHANGED <<removed, batches, iteration>>]_vars
  /\ [][pr_pc = "raised" =>
          UNCHANGED <<pr_pc, removed, batches, events, iteration>>]_vars

\* the second of three grouped requests has failed on its fifth attempt:
\* the first slice is deleted, the third was never built
C21_Witness ==
  /\ BatchRaised
  /\ iteration = 1
  /\ Len(batches) = 2
  /\ Iterations(Len(files_to_del)) = 3
  /\ bo.err = "Exception" /\ bo.calls = 5
  /\ Cardinality(removed) > 90

====
